---------------------------- MODULE Spec2Model ----------------------------
(* A model of the address book of src/main.py: the validated fields       *)
(* (Field, Name, Phone, Birthday), Record, and AddressBook with its       *)
(* pickle persistence and its context-manager session.                    *)
(*                                                                         *)
(* Python values are records [type, chars]: `type` is the Python type     *)
(* and `chars` is what str() of the value yields, a sequence of           *)
(* one-character strings.  Non-ASCII digits are written by code point.    *)
EXTENDS Integers, Sequences, FiniteSets, TLC

VARIABLES
    rec,        \* a Record held by the caller: [name, phones, birthday]
    data,       \* AddressBook.data: the dict, as its entries in dict order
    file,       \* the file at AddressBook.filename
    pc,         \* where the process using the book is
    exc,        \* the exception that left the process, "none" otherwise
    exitSaves,  \* save() calls made by __exit__ in the current process
    last        \* the most recent call: its name, arguments and outcome

vars == <<rec, data, file, pc, exc, exitSaves, last>>

-----------------------------------------------------------------------------
(* Python values                                                           *)

PyStr(s) == [type |-> "str", chars |-> s]
PyInt(s) == [type |-> "int", chars |-> s]
PyNone == [type |-> "NoneType", chars |-> <<"N", "o", "n", "e">>]
PyDatetime(s) == [type |-> "datetime", chars |-> s]
PyDate(s) == [type |-> "date", chars |-> s]

\* str(v)
str(v) == v.chars

AsciiDigits == {"0", "1", "2", "3", "4", "5", "6", "7", "8", "9"}

\* Characters outside ASCII that str.isdigit() accepts (Unicode Nd / digit
\* property): ARABIC-INDIC DIGIT ONE..THREE and SUPERSCRIPT TWO.
UnicodeDigits == {"U+0661", "U+0662", "U+0663", "U+00B2"}

UpperLetters ==
    <<"A", "B", "C", "D", "E", "F", "G", "H", "I", "J", "K", "L", "M",
      "N", "O", "P", "Q", "R", "S", "T", "U", "V", "W", "X", "Y", "Z">>

LowerLetters ==
    <<"a", "b", "c", "d", "e", "f", "g", "h", "i", "j", "k", "l", "m",
      "n", "o", "p", "q", "r", "s", "t", "u", "v", "w", "x", "y", "z">>

\* str.lower() on one character
lowerChar(c) ==
    IF \E i \in DOMAIN UpperLetters : UpperLetters[i] = c
    THEN LowerLetters[CHOOSE i \in DOMAIN UpperLetters : UpperLetters[i] = c]
    ELSE c

\* str.lower()
lower(s) == [i \in DOMAIN s |-> lowerChar(s[i])]

\* str.isdigit(): at least one character and every character a digit
isdigit(s) == Len(s) > 0 /\ \A i \in DOMAIN s : s[i] \in AsciiDigits \cup UnicodeDigits

\* `q in s` for strings: q occurs in s as a contiguous substring
contains(s, q) ==
    \E i \in 0..(Len(s) - Len(q)) : SubSeq(s, i + 1, i + Len(q)) = q

-----------------------------------------------------------------------------
(* Field, Phone, Birthday                                                  *)

NoError == "none"
PhoneError == "ValueError: Phone number must contain exactly 10 digits."
BirthdayError == "ValueError: Birthday must be a datetime object."
NotFoundError == "ValueError: Old phone number not found."
NotCallableError == "TypeError: 'str' object is not callable"

PhoneLen == 10

\* Field.value (getter)
Field_value(field) == field

\* Phone.validate_phone: the exception it raises, NoError when it returns
validate_phone(value) ==
    IF value.type # "str" \/ Len(value.chars) # PhoneLen \/ ~isdigit(value.chars)
    THEN PhoneError
    ELSE NoError

\* Phone.__init__: validate, then Field.__init__ stores the value as given
Phone_init(value) ==
    [exc |-> validate_phone(value), value |-> value]

\* Phone.value (setter): validate, then `super().value(new_value)`, which
\* reads the property through super() (the stored string, never a callable)
\* and calls it; Field's setter is not reached.
Phone_value_set(field, new_value) ==
    IF validate_phone(new_value) # NoError
    THEN [exc |-> validate_phone(new_value), value |-> field]
    ELSE [exc |-> NotCallableError, value |-> Field_value(field)]

\* Birthday.validate_date
validate_date(value) ==
    IF value.type # "NoneType" /\ value.type # "datetime"
    THEN BirthdayError
    ELSE NoError

-----------------------------------------------------------------------------
(* Record                                                                  *)

\* Record.__init__
Record_init(name, birthday) ==
    [exc |-> validate_date(birthday),
     rec |-> [name |-> name, phones |-> <<>>, birthday |-> birthday]]

\* Record.add_phone
add_phone(r, phone) ==
    IF Phone_init(phone).exc # NoError
    THEN [exc |-> Phone_init(phone).exc, rec |-> r]
    ELSE [exc |-> NoError,
          rec |-> [r EXCEPT !.phones = Append(@, Phone_init(phone).value)]]

\* removal of the first match only, where the code removes every match
remove_first_phone(r, phone) ==
    IF \E i \in DOMAIN r.phones : str(r.phones[i]) = str(phone)
    THEN LET k == CHOOSE i \in DOMAIN r.phones :
                    /\ str(r.phones[i]) = str(phone)
                    /\ \A j \in 1..(i - 1) : str(r.phones[j]) # str(phone)
         IN [r EXCEPT !.phones = SubSeq(@, 1, k - 1) \o SubSeq(@, k + 1, Len(@))]
    ELSE r

\* Record.remove_phone
remove_phone(r, phone) ==
    LET keep(p) == str(p) # str(phone)
    IN [r EXCEPT !.phones = SelectSeq(@, keep)]

\* Record.find_phone: the index of the first phone equal by str(), 0 for None
find_phone(r, phone) ==
    IF \E i \in DOMAIN r.phones : str(r.phones[i]) = str(phone)
    THEN CHOOSE i \in DOMAIN r.phones :
            /\ str(r.phones[i]) = str(phone)
            /\ \A j \in 1..(i - 1) : str(r.phones[j]) # str(phone)
    ELSE 0

\* Record.edit_phone
edit_phone(r, old_phone, new_phone) ==
    IF find_phone(r, old_phone) = 0
    THEN [exc |-> NotFoundError, rec |-> r]
    ELSE add_phone(remove_phone(r, old_phone), new_phone)

-----------------------------------------------------------------------------
(* AddressBook: the dict operations                                        *)

\* the dict's entries are [key, rec], in dict (insertion) order
KeyIndex(d, key) ==
    IF \E i \in DOMAIN d : d[i].key = key
    THEN CHOOSE i \in DOMAIN d : d[i].key = key
    ELSE 0

\* an add_record that keeps the record already stored under the name
add_record_keep_first(d, record) ==
    IF KeyIndex(d, Field_value(record.name)) = 0
    THEN Append(d, [key |-> Field_value(record.name), rec |-> record])
    ELSE d

\* AddressBook.add_record: self.data[record.name.value] = record; an
\* existing key keeps its place in the dict and gets the new value
add_record(d, record) ==
    IF KeyIndex(d, Field_value(record.name)) = 0
    THEN Append(d, [key |-> Field_value(record.name), rec |-> record])
    ELSE [d EXCEPT ![KeyIndex(d, Field_value(record.name))].rec = record]

\* AddressBook.delete
delete(d, name) ==
    IF KeyIndex(d, name) # 0
    THEN SubSeq(d, 1, KeyIndex(d, name) - 1) \o SubSeq(d, KeyIndex(d, name) + 1, Len(d))
    ELSE d

\* AddressBook.find: <<record>>, or <<>> for None
find(d, name) ==
    IF KeyIndex(d, name) # 0 THEN <<d[KeyIndex(d, name)].rec>> ELSE <<>>

\* one pass of the loop body of AddressBook.search: what it appends for one
\* record
search_record(record, query) ==
    (IF contains(lower(str(Field_value(record.name))), lower(str(query)))
     THEN <<record>> ELSE <<>>)
    \o (IF \E i \in DOMAIN record.phones :
              contains(str(Field_value(record.phones[i])), str(query))
        THEN <<record>> ELSE <<>>)

\* AddressBook.search: the loop over self.values()
RECURSIVE search(_, _)
search(d, query) ==
    IF d = <<>> THEN <<>>
    ELSE search_record(Head(d).rec, query) \o search(Tail(d), query)

-----------------------------------------------------------------------------
(* AddressBook: persistence and the context manager                        *)

FileNotFound == "FileNotFoundError"
EOFError == "EOFError: Ran out of input"
UnpicklingError == "UnpicklingError: pickle data was truncated"

NoFile == [exists |-> FALSE, stream |-> <<>>, stop |-> FALSE]

\* the pickle stream of the dict: key, value, key, value, ... in dict order
RECURSIVE pickle_items(_)
pickle_items(d) ==
    IF d = <<>> THEN <<>>
    ELSE <<Head(d).key, Head(d).rec>> \o pickle_items(Tail(d))

\* open(self.filename, 'wb'): the file exists and is empty
open_wb(f) == [exists |-> TRUE, stream |-> <<>>, stop |-> FALSE]

\* pickle.dump(self.data, f): the items, then the STOP opcode
pickle_dump(d, f) == [f EXCEPT !.stream = pickle_items(d), !.stop = TRUE]

\* a dump that ends after n items of the stream are on disk
pickle_dump_interrupted(d, f, n) ==
    [f EXCEPT !.stream = SubSeq(pickle_items(d), 1, n)]

\* the dict a complete stream holds
RECURSIVE unpickle_items(_)
unpickle_items(stream) ==
    IF Len(stream) < 2 THEN <<>>
    ELSE <<[key |-> stream[1], rec |-> stream[2]]>>
         \o unpickle_items(SubSeq(stream, 3, Len(stream)))

\* open(self.filename, 'rb') and pickle.load(f)
pickle_load(f) ==
    IF ~f.exists THEN [exc |-> FileNotFound, data |-> <<>>]
    ELSE IF ~f.stop
         THEN [exc |-> IF f.stream = <<>> THEN EOFError ELSE UnpicklingError,
               data |-> <<>>]
         ELSE [exc |-> NoError, data |-> unpickle_items(f.stream)]

\* a load that reads the file and does not assign self.data
load_not_assigned(f, d) ==
    [exc |-> IF pickle_load(f).exc = FileNotFound THEN NoError ELSE pickle_load(f).exc,
     data |-> d]

\* AddressBook.load: only FileNotFoundError is handled; on another exception
\* self.data is not assigned
load(f, d) ==
    IF pickle_load(f).exc = FileNotFound THEN [exc |-> NoError, data |-> <<>>]
    ELSE IF pickle_load(f).exc # NoError
         THEN [exc |-> pickle_load(f).exc, data |-> d]
         ELSE [exc |-> NoError, data |-> pickle_load(f).data]

\* AddressBook.save
save(d, f) == pickle_dump(d, open_wb(f))

\* AddressBook.__init__
AddressBook_init(f) == load(f, <<>>)

\* an __enter__ that keeps what the instance holds
AddressBook_enter_keep(f, d) == [exc |-> NoError, data |-> d]

\* AddressBook.__enter__
AddressBook_enter(f, d) == load(f, d)

\* an __exit__ that saves only when the body did not raise
AddressBook_exit_skip_on_error(d, f, e) ==
    IF e = NoError
    THEN [file |-> save(d, f), saves |-> 1, suppress |-> FALSE]
    ELSE [file |-> f, saves |-> 0, suppress |-> FALSE]

\* AddressBook.__exit__(exc_type, ...): save, and return None, so the with
\* statement re-raises the body's exception
AddressBook_exit(d, f, e) ==
    [file |-> save(d, f), saves |-> 1, suppress |-> FALSE]

-----------------------------------------------------------------------------
(* Inputs                                                                  *)

\* the largest number of phones a record is given
MaxPhones == 2

JaneSmith == <<"J", "a", "n", "e", " ", "S", "m", "i", "t", "h">>
Bob555 == <<"B", "o", "b", " ", "5", "5", "5">>
janeSmith == <<"j", "a", "n", "e", " ", "s", "m", "i", "t", "h">>

P1 == PyStr(<<"5", "5", "5", "1", "2", "3", "4", "5", "6", "7">>)
P2 == PyStr(<<"5", "5", "5", "9", "8", "7", "6", "5", "4", "3">>)
P3 == PyStr(<<"9", "8", "7", "6", "5", "4", "3", "2", "1", "0">>)
\* ten Arabic-Indic digits
PArabic ==
    PyStr(<<"U+0661", "U+0662", "U+0663", "U+0661", "U+0662",
            "U+0663", "U+0661", "U+0662", "U+0663", "U+0661">>)
PShort == PyStr(<<"5", "5", "5", "1", "2", "3", "4", "5", "6">>)
PLong == PyStr(<<"5", "5", "5", "1", "2", "3", "4", "5", "6", "7", "8">>)
PDashed == PyStr(<<"5", "5", "5", "-", "1", "2", "3", "4", "5", "6">>)
PEmpty == PyStr(<<>>)
\* the integer 5551234567
PAsInt == PyInt(P1.chars)

PhoneInputs == {P1, P2, PArabic, PShort, PLong, PDashed, PEmpty, PAsInt, PyNone}

D1 == PyDatetime(<<"1", "9", "9", "0", "-", "0", "5", "-", "1", "7">>)
\* a datetime.date, as strptime(...).date() yields
DateOnly == PyDate(<<"1", "9", "9", "0", "-", "0", "5", "-", "1", "7">>)

BirthdayInputs == {PyNone, D1, DateOnly}

Call(op, args, e, ret, before) ==
    [op |-> op, args |-> args, exc |-> e, ret |-> ret, before |-> before]

NoCall == Call("none", <<>>, NoError, <<>>, <<>>)

Init ==
    /\ rec = Record_init(PyStr(JaneSmith), PyNone).rec
    /\ data = <<>>
    /\ file = NoFile
    /\ pc = "start"
    /\ exc = NoError
    /\ exitSaves = 0
    /\ last = NoCall

-----------------------------------------------------------------------------
(* Calls on one Record and on its Phone fields                             *)

bookVars == <<data, file, pc, exc, exitSaves>>

\* Record(name, birthday)
RecordNew(name, birthday) ==
    LET r == Record_init(name, birthday)
    IN /\ rec' = IF r.exc = NoError THEN r.rec ELSE rec
       /\ last' = Call("Record", <<name, birthday>>, r.exc, <<>>, rec.phones)
       /\ UNCHANGED bookVars

\* Phone(value), the value read back on success
PhoneNew(value) ==
    LET p == Phone_init(value)
    IN /\ last' = Call("Phone", <<value>>, p.exc,
                        IF p.exc = NoError THEN <<Field_value(p.value)>> ELSE <<>>,
                        rec.phones)
       /\ UNCHANGED <<rec, bookVars>>

\* rec.phones[i].value = value, then the value read back
PhoneSet(i, value) ==
    LET p == Phone_value_set(rec.phones[i], value)
    IN /\ rec' = [rec EXCEPT !.phones[i] = p.value]
       /\ last' = Call("Phone.value=", <<rec.phones[i], value>>, p.exc,
                        <<Field_value(p.value)>>, rec.phones)
       /\ UNCHANGED bookVars

\* rec.add_phone(phone)
AddPhone(phone) ==
    LET r == add_phone(rec, phone)
    IN /\ Len(rec.phones) < MaxPhones
       /\ rec' = r.rec
       /\ last' = Call("add_phone", <<phone>>, r.exc, <<>>, rec.phones)
       /\ UNCHANGED bookVars

\* rec.remove_phone(phone)
RemovePhone(phone) ==
    /\ rec' = remove_phone(rec, phone)
    /\ last' = Call("remove_phone", <<phone>>, NoError, <<>>, rec.phones)
    /\ UNCHANGED bookVars

\* rec.edit_phone(old_phone, new_phone)
EditPhone(old_phone, new_phone) ==
    LET r == edit_phone(rec, old_phone, new_phone)
    IN /\ rec' = r.rec
       /\ last' = Call("edit_phone", <<old_phone, new_phone>>, r.exc, <<>>, rec.phones)
       /\ UNCHANGED bookVars

\* rec.find_phone(phone)
FindPhone(phone) ==
    LET i == find_phone(rec, phone)
    IN /\ last' = Call("find_phone", <<phone>>, NoError,
                        IF i = 0 THEN <<>> ELSE <<rec.phones[i]>>, rec.phones)
       /\ UNCHANGED <<rec, bookVars>>

NextRecord ==
    \/ \E name \in {PyStr(JaneSmith), PyStr(Bob555)}, birthday \in BirthdayInputs :
            RecordNew(name, birthday)
    \/ \E value \in PhoneInputs : PhoneNew(value)
    \/ \E i \in DOMAIN rec.phones, value \in PhoneInputs : PhoneSet(i, value)
    \/ \E phone \in PhoneInputs : AddPhone(phone)
    \/ \E phone \in PhoneInputs : RemovePhone(phone)
    \/ \E old_phone \in PhoneInputs, new_phone \in PhoneInputs :
            EditPhone(old_phone, new_phone)
    \/ \E phone \in PhoneInputs : FindPhone(phone)

SpecRecord == Init /\ [][NextRecord]_vars

-----------------------------------------------------------------------------
(* Claims on Record and Phone, under SpecRecord                            *)

\* a string of exactly 10 characters, each one of the ASCII digits 0-9
IsCanonicalPhone(v) ==
    /\ v.type = "str"
    /\ Len(v.chars) = PhoneLen
    /\ \A i \in DOMAIN v.chars : v.chars[i] \in AsciiDigits

\* some phone of the sequence equals v by string representation
HasPhone(phones, v) == \E i \in DOMAIN phones : str(phones[i]) = str(v)

\* the sequence with every phone equal to v by string representation left out
RECURSIVE WithoutPhone(_, _)
WithoutPhone(phones, v) ==
    IF phones = <<>> THEN <<>>
    ELSE IF str(Head(phones)) = str(v)
         THEN WithoutPhone(Tail(phones), v)
         ELSE <<Head(phones)>> \o WithoutPhone(Tail(phones), v)

\* C1: edit_phone(old, new) on a record that holds old, with a new that fails
\* phone validation, raises the validation error and leaves the phones
\* sequence exactly as it was before the call.
C1_EditPhoneTransactional ==
    (/\ last.op = "edit_phone"
     /\ HasPhone(last.before, last.args[1])
     /\ validate_phone(last.args[2]) # NoError)
    => (last.exc = PhoneError /\ rec.phones = last.before)

\* C4: assigning v to an existing Phone's value succeeds and reads back v
\* when v passes validation, fails with the validation error and leaves the
\* value unchanged when it does not; and every Phone of the record holds a
\* value that passes validation.
C4_PhoneSetValidates ==
    /\ last.op = "Phone.value="
       => IF validate_phone(last.args[2]) = NoError
          THEN last.exc = NoError /\ last.ret = <<last.args[2]>>
          ELSE last.exc = PhoneError /\ last.ret = <<last.args[1]>>
    /\ \A i \in DOMAIN rec.phones : validate_phone(rec.phones[i]) = NoError

\* C5: Phone(s) succeeds exactly when s is a string of 10 ASCII digits, fails
\* with the validation error otherwise, and on success reads back s.
C5_PhoneAcceptsExactlyCanonical ==
    last.op = "Phone"
    => /\ (last.exc = NoError) <=> IsCanonicalPhone(last.args[1])
       /\ last.exc = NoError => last.ret = <<last.args[1]>>
       /\ last.exc # NoError => last.exc = PhoneError

\* C9: edit_phone(old, new) with a new that passes validation: when no phone
\* equals old by string the call raises the not-found error and the phones
\* are unchanged; otherwise it returns, and the phones are the previous ones
\* without every occurrence of old, in their order, followed by new.
C9_EditPhoneResult ==
    (last.op = "edit_phone" /\ validate_phone(last.args[2]) = NoError)
    => IF HasPhone(last.before, last.args[1])
       THEN /\ last.exc = NoError
            /\ rec.phones = WithoutPhone(last.before, last.args[1]) \o <<last.args[2]>>
       ELSE /\ last.exc = NotFoundError
            /\ rec.phones = last.before

\* C9 witness: ["5551234567"] edited to "5559876543" ends as ["5559876543"].
C9_Witness ==
    /\ last.op = "edit_phone"
    /\ last.before = <<P1>>
    /\ last.args = <<P1, P2>>
    /\ last.exc = NoError
    /\ rec.phones = <<P2>>

-----------------------------------------------------------------------------
(* Calls on an AddressBook held in memory                                  *)

\* the largest number of phones of a record that is put in a book
MaxBookPhones == 1

BookNames == {PyStr(JaneSmith), PyStr(janeSmith), PyStr(Bob555)}

\* the phones a record of that name is given
PhonesOf(name) ==
    IF name = PyStr(JaneSmith) THEN {P1, P3}
    ELSE IF name = PyStr(Bob555) THEN {P1}
    ELSE {P3}

\* the sequences over S of length at most n
SeqsUpTo(S, n) == UNION {[1..k -> S] : k \in 0..n}

\* Record(name, birthday) followed by add_phone of each phone in turn
RECURSIVE MakeRecord(_, _, _)
MakeRecord(name, birthday, phones) ==
    IF phones = <<>> THEN Record_init(name, birthday).rec
    ELSE add_phone(MakeRecord(name, birthday, SubSeq(phones, 1, Len(phones) - 1)),
                   phones[Len(phones)]).rec

BookRecords ==
    UNION {{MakeRecord(name, PyNone, phones) :
                phones \in SeqsUpTo(PhonesOf(name), MaxBookPhones)} :
           name \in BookNames}

Queries ==
    {PyStr(<<>>), PyStr(<<"s", "m", "i", "t", "h">>), PyStr(<<"S", "M", "I", "T", "H">>),
     PyStr(<<"9", "8", "7">>), PyStr(<<"5", "5", "5">>), PyStr(<<"x", "y", "z">>)}

storeVars == <<file, pc, exc, exitSaves>>

\* book.add_record(record)
AddRecord(record) ==
    /\ data' = add_record(data, record)
    /\ last' = Call("add_record", <<record>>, NoError, <<>>,
                     find(data, Field_value(record.name)))
    /\ UNCHANGED <<rec, storeVars>>

\* book.delete(name)
Delete(name) ==
    /\ data' = delete(data, name)
    /\ last' = Call("delete", <<name>>, NoError, <<>>, find(data, name))
    /\ UNCHANGED <<rec, storeVars>>

\* book.find(name)
Find(name) ==
    /\ last' = Call("find", <<name>>, NoError, find(data, name), <<>>)
    /\ UNCHANGED <<rec, data, storeVars>>

\* book.search(query)
Search(query) ==
    /\ last' = Call("search", <<query>>, NoError, search(data, query), <<>>)
    /\ UNCHANGED <<rec, data, storeVars>>

NextBook ==
    \/ \E record \in BookRecords : AddRecord(record)
    \/ \E name \in BookNames : Delete(name)
    \/ \E name \in BookNames : Find(name)
    \/ \E query \in Queries : Search(query)

SpecBook == Init /\ [][NextBook]_vars

-----------------------------------------------------------------------------
(* Claims on the dict operations, under SpecBook                           *)

\* the records stored under a name
Stored(d, name) == {d[i].rec : i \in {j \in DOMAIN d : d[j].key = name}}

KeysUnique(d) == \A i, j \in DOMAIN d : d[i].key = d[j].key => i = j

\* a record matches when its name contains the query case-insensitively or
\* one of its phones contains the query
Matches(record, query) ==
    \/ contains(lower(str(record.name)), lower(str(query)))
    \/ \E i \in DOMAIN record.phones : contains(str(record.phones[i]), str(query))

\* the stored records that match, in dict order
RECURSIVE Matching(_, _)
Matching(d, query) ==
    IF d = <<>> THEN <<>>
    ELSE (IF Matches(Head(d).rec, query) THEN <<Head(d).rec>> ELSE <<>>)
         \o Matching(Tail(d), query)

\* C2: search(query) returns the stored records that match (by name,
\* case-insensitively, or by a phone), each at most once, in the book's
\* collection order.
C2_SearchEachMatchOnce ==
    last.op = "search"
    => /\ \A i, j \in DOMAIN last.ret : last.ret[i] = last.ret[j] => i = j
       /\ last.ret = Matching(data, last.args[1])

\* C8: the book holds at most one record per name (exact, case-sensitive
\* key); add_record stores its record under its name without error and
\* changes no other entry, replacing a record already there; delete removes
\* the entry of that name only, and changes nothing when the name is absent;
\* find returns the record stored under exactly that name, or None.
C8_LastWriteWins ==
    [][/\ KeysUnique(data')
       /\ last'.op = "add_record"
          => /\ last'.exc = NoError
             /\ Stored(data', last'.args[1].name) = {last'.args[1]}
             /\ \A name \in BookNames \ {last'.args[1].name} :
                    Stored(data', name) = Stored(data, name)
       /\ last'.op = "delete"
          => /\ last'.exc = NoError
             /\ Stored(data', last'.args[1]) = {}
             /\ \A name \in BookNames \ {last'.args[1]} :
                    Stored(data', name) = Stored(data, name)
             /\ Stored(data, last'.args[1]) = {} => data' = data
       /\ last'.op = "find"
          => /\ data' = data
             /\ Stored(data, last'.args[1]) = {last'.ret[i] : i \in DOMAIN last'.ret}
             /\ Len(last'.ret) <= 1
      ]_vars

\* C8 witness: a record was just added over another one of the same name,
\* while a record whose name differs only in case is stored beside it.
C8_Witness ==
    /\ last.op = "add_record"
    /\ last.before # <<>>
    /\ last.before # <<last.args[1]>>
    /\ last.args[1].name = PyStr(JaneSmith)
    /\ Stored(data, PyStr(janeSmith)) # {}
    /\ Stored(data, PyStr(JaneSmith)) # Stored(data, PyStr(janeSmith))

-----------------------------------------------------------------------------
(* Processes that use an AddressBook on one file                           *)
(*                                                                         *)
(* pc: "start" no process has run; "constructed" AddressBook() returned;   *)
(* "body" inside `with book:`; "done" the with statement completed;        *)
(* "raised" an exception left the with statement; "aborted" an exception   *)
(* was raised outside a with statement; "crashed" the process was killed   *)
(* during a save.                                                          *)

StoreNames == {PyStr(JaneSmith), PyStr(Bob555)}

StoreRecords ==
    {MakeRecord(PyStr(JaneSmith), D1, phones) :
        phones \in SeqsUpTo(PhonesOf(PyStr(JaneSmith)), MaxBookPhones)}
    \cup {MakeRecord(PyStr(Bob555), PyNone, phones) :
        phones \in SeqsUpTo(PhonesOf(PyStr(Bob555)), MaxBookPhones)}

Ended == {"start", "done", "raised", "aborted", "crashed"}
Live == {"constructed", "body"}

\* a call of the process returned, or raised e and the caller handled it
Returns(op, e) ==
    /\ pc' = pc
    /\ last' = Call(op, <<>>, e, <<>>, <<>>)
    /\ UNCHANGED <<rec, file, exc, exitSaves>>

\* the with statement ends with e pending (NoError: the body completed):
\* __exit__ runs on the book as it is then, and e is re-raised unless
\* __exit__ returned a true value
WithExit(op, e) ==
    LET x == AddressBook_exit(data', file, e)
    IN /\ file' = x.file
       /\ exitSaves' = exitSaves + x.saves
       /\ pc' = IF e = NoError \/ x.suppress THEN "done" ELSE "raised"
       /\ exc' = IF e = NoError \/ x.suppress THEN NoError ELSE e
       /\ last' = Call(op, <<>>, e, <<>>, <<>>)
       /\ UNCHANGED rec

\* a call raised e and nothing handles it
Raises(op, e) ==
    IF pc = "body" THEN WithExit(op, e)
    ELSE /\ pc' = "aborted"
         /\ exc' = e
         /\ last' = Call(op, <<>>, e, <<>>, <<>>)
         /\ UNCHANGED <<rec, file, exitSaves>>

Outcome(op, e, handled) ==
    IF e = NoError \/ handled THEN Returns(op, e) ELSE Raises(op, e)

\* a process starts: book = AddressBook()
Construct ==
    LET r == AddressBook_init(file)
    IN /\ pc \in Ended
       /\ data' = r.data
       /\ pc' = IF r.exc = NoError THEN "constructed" ELSE "aborted"
       /\ exc' = r.exc
       /\ exitSaves' = 0
       /\ last' = Call("__init__", <<>>, r.exc, <<>>, <<>>)
       /\ UNCHANGED <<rec, file>>

\* `with book:` is entered
Enter ==
    LET r == AddressBook_enter(file, data)
    IN /\ pc = "constructed"
       /\ data' = r.data
       /\ pc' = IF r.exc = NoError THEN "body" ELSE "aborted"
       /\ exc' = r.exc
       /\ last' = Call("__enter__", <<>>, r.exc, <<>>, data)
       /\ UNCHANGED <<rec, file, exitSaves>>

\* the body of the with statement completes
BodyEnd ==
    /\ pc = "body"
    /\ data' = data
    /\ WithExit("__exit__", NoError)

StoreAddRecord(record) ==
    /\ pc \in Live
    /\ data' = add_record(data, record)
    /\ Returns("add_record", NoError)

StoreDelete(name) ==
    /\ pc \in Live
    /\ data' = delete(data, name)
    /\ Returns("delete", NoError)

\* book.find(name).add_phone(phone)
StoreAddPhone(name, phone, handled) ==
    /\ pc \in Live
    /\ find(data, name) # <<>>
    /\ Len(find(data, name)[1].phones) < MaxBookPhones
    /\ LET r == add_phone(find(data, name)[1], phone)
       IN /\ handled => r.exc # NoError
          /\ data' = [data EXCEPT ![KeyIndex(data, name)].rec = r.rec]
          /\ Outcome("add_phone", r.exc, handled)

\* book.find(name).remove_phone(phone)
StoreRemovePhone(name, phone) ==
    /\ pc \in Live
    /\ find(data, name) # <<>>
    /\ data' = [data EXCEPT ![KeyIndex(data, name)].rec =
                    remove_phone(find(data, name)[1], phone)]
    /\ Returns("remove_phone", NoError)

\* book.find(name).edit_phone(old_phone, new_phone)
StoreEditPhone(name, old_phone, new_phone, handled) ==
    /\ pc \in Live
    /\ find(data, name) # <<>>
    /\ LET r == edit_phone(find(data, name)[1], old_phone, new_phone)
       IN /\ handled => r.exc # NoError
          /\ data' = [data EXCEPT ![KeyIndex(data, name)].rec = r.rec]
          /\ Outcome("edit_phone", r.exc, handled)

\* book.save()
StoreSave ==
    /\ pc \in Live
    /\ file' = save(data, file)
    /\ pc' = pc
    /\ last' = Call("save", <<>>, NoError, <<>>, <<>>)
    /\ UNCHANGED <<rec, data, exc, exitSaves>>

\* the process is killed inside save(), called by the body or by __exit__,
\* after open(..., 'wb') and before pickle.dump has written everything
SaveKilled(n) ==
    /\ pc \in Live
    /\ file' = pickle_dump_interrupted(data, open_wb(file), n)
    /\ pc' = "crashed"
    /\ data' = <<>>
    /\ exc' = NoError
    /\ last' = Call("save", <<>>, "killed", <<>>, <<>>)
    /\ UNCHANGED <<rec, exitSaves>>

NextStore ==
    \/ Construct
    \/ Enter
    \/ BodyEnd
    \/ \E record \in StoreRecords : StoreAddRecord(record)
    \/ \E name \in StoreNames : StoreDelete(name)
    \/ \E name \in StoreNames, handled \in BOOLEAN :
          \E phone \in PhonesOf(name) \cup {PShort} :
            StoreAddPhone(name, phone, handled)
    \/ \E name \in StoreNames : \E phone \in PhonesOf(name) :
            StoreRemovePhone(name, phone)
    \/ \E name \in StoreNames, handled \in BOOLEAN :
          \E old_phone \in {P1, P3}, new_phone \in PhonesOf(name) \cup {PShort} :
            StoreEditPhone(name, old_phone, new_phone, handled)
    \/ StoreSave
    \/ \E n \in 0..Len(pickle_items(data)) : SaveKilled(n)

SpecStore == Init /\ [][NextStore]_vars

-----------------------------------------------------------------------------
(* Claims on persistence and sessions, under SpecStore                     *)

\* the same names, and under each name the same phones in the same order
\* and the same birthday
SameBook(d1, d2) ==
    /\ {d1[i].key : i \in DOMAIN d1} = {d2[i].key : i \in DOMAIN d2}
    /\ \A i \in DOMAIN d1, j \in DOMAIN d2 :
          d1[i].key = d2[j].key
          => /\ d1[i].rec.name = d2[j].rec.name
             /\ d1[i].rec.phones = d2[j].rec.phones
             /\ d1[i].rec.birthday = d2[j].rec.birthday

\* C3: when the with statement has ended, by the body completing or by an
\* exception of the body, __exit__ has called save() exactly once, the file
\* holds the book as it was at exit, and an exception of the body has left
\* the with statement (it is the process's exception, not swallowed).
C3_SaveOnEveryExit ==
    /\ pc \in {"done", "raised"}
       => /\ exitSaves = 1
          /\ pickle_load(file).exc = NoError
          /\ pickle_load(file).data = data
    /\ pc = "done" => (last.op = "__exit__" /\ last.exc = NoError /\ exc = NoError)
    /\ pc = "raised" => (last.exc # NoError /\ exc = last.exc)

\* C3 witness: edit_phone raised in the body on a book with a record; the
\* exception left the with statement and the file holds the book.
C3_Witness ==
    /\ pc = "raised"
    /\ last.op = "edit_phone"
    /\ exc = NotFoundError
    /\ data # <<>>
    /\ file = save(data, NoFile)

\* C6: at every moment the file is absent or holds a complete snapshot that
\* load reads back, also when a save was interrupted.
C6_SaveAtomic ==
    file.exists => pickle_load(file).exc = NoError

C10_EnterReloads ==
    (last.op = "__enter__" /\ last.exc = NoError)
    => /\ pc = "body"
       /\ data = IF file.exists THEN pickle_load(file).data ELSE <<>>

\* C10 witness: records added after construction and not saved are gone
\* (the file holds another book) once the session is entered.
C10_Witness ==
    /\ last.op = "__enter__"
    /\ pc = "body"
    /\ last.before # <<>>
    /\ last.before # data
    /\ file.exists

=============================================================================
